---- MODULE Spec2Model ----
(***************************************************************************)
(* UnderCurrent (CFS-HRV monitor): the rolling-baseline tracker and the    *)
(* readiness / PEM-risk engine of src/backend, as state machines over the  *)
(* three tables of src/backend/models.py.                                  *)
(*                                                                         *)
(* Numbers.  Python floats are fixed-point integers in thousandths        *)
(* (1.0 is 1000): z-scores, component scores, ln(RMSSD), ratios, hours of  *)
(* sleep.  RMSSD (ms), heart rates (bpm), spectral powers (ms^2) and days  *)
(* are whole numbers.  A float division is the quotient rounded towards    *)
(* minus infinity (Quot).  A float or nullable column is a tuple: <<>> is  *)
(* None, <<v>> the number v, <<0, 0>> is nan.                              *)
(*                                                                         *)
(* Calls.  Every method that can raise returns [exc, val]: exc is "" for a *)
(* normal return and the Python exception's name otherwise.                *)
(***************************************************************************)
EXTENDS Integers, Sequences, FiniteSets, TLC

VARIABLES
    readings,    \* table hrv_readings: a sequence of rows, the id is the index
    baselines,   \* table baselines (committed rows), the id is the index
    scores,      \* table energy_budgets, the id is the index
    sessions,    \* the open database sessions of concurrent requests
    args,        \* the arguments of the call last made
    ret          \* what the call last made returned or raised

vars == <<readings, baselines, scores, sessions, args, ret>>

----------------------------------------------------------------------------
(* Values *)

\* An Optional[float] or float: <<>> is None, <<v>> is the number v, NaN is nan.
None == <<>>

NaN == <<0, 0>>

F(v) == <<v>>

IsNone(x) == x = <<>>

IsNaN(x) == Len(x) = 2

IsNum(x) == Len(x) = 1

Val(x) == x[1]

\* Python truthiness of an Optional[float]: None and 0.0 are false, nan is true.
Truthy(x) == IF IsNum(x) THEN Val(x) # 0 ELSE IsNaN(x)

\* x < c and x > c for a float x and a number c: every comparison with nan is false.
Lt(x, c) == IsNum(x) /\ Val(x) < c

Gt(x, c) == IsNum(x) /\ Val(x) > c

ONE == 10 * 10 * 10

Abs(x) == IF x < 0 THEN 0 - x ELSE x

\* a / b for b # 0, rounded towards minus infinity.
Quot(a, b) == IF b > 0 THEN a \div b ELSE (0 - a) \div (0 - b)

\* a - b and a / b on floats (b # 0.0): nan in, nan out.
FSub(a, b) == IF IsNaN(a) \/ IsNaN(b) THEN NaN ELSE F(Val(a) - Val(b))

FDiv(a, b) == IF IsNaN(a) \/ IsNaN(b) THEN NaN ELSE F(Quot(Val(a) * ONE, Val(b)))

\* c + k * x for numbers c, k and a float x.
FLin(c, k, x) == IF IsNaN(x) THEN NaN ELSE F(c + k * Val(x))

Ok(v) == [exc |-> "", val |-> v]

Raise(e) == [exc |-> e, val |-> 0]

NoCall == [op |-> "none", exc |-> "", val |-> 0]

RECURSIVE SumSeq(_)
SumSeq(s) == IF s = <<>> THEN 0 ELSE Head(s) + SumSeq(Tail(s))

\* np.log on the RMSSD values (ms) the model uses, in thousandths.
np_log(r) ==
    CASE r = 20 -> 2996
      [] r = 40 -> 3689
      [] r = 55 -> 4007
      [] r = 80 -> 4382

----------------------------------------------------------------------------
(* BaselineTracker.calculate_z_score *)

\* The guard of line 179 dropped: Python raises on a float division by zero.
calculate_z_score_unguarded(value, baseline_mean, baseline_sd) ==
    IF baseline_sd = F(0)
    THEN Raise("ZeroDivisionError")
    ELSE Ok(FDiv(FSub(value, baseline_mean), baseline_sd))

calculate_z_score(value, baseline_mean, baseline_sd) ==
    IF baseline_sd = F(0)
    THEN Ok(F(0))
    ELSE IF IsNone(value) \/ IsNone(baseline_mean) \/ IsNone(baseline_sd)
    THEN Raise("TypeError")
    ELSE Ok(FDiv(FSub(value, baseline_mean), baseline_sd))

(* The z-score specification: the arguments are drawn at Init, one call.  *)

ZValues == {-2000, 0, 1500, 3689, 4382}

ZMeans == {0, 1000, 3689}

ZSds == {-500, 0, 3, 250, 1000}

InitZ ==
    /\ readings = <<>>
    /\ baselines = <<>>
    /\ scores = <<>>
    /\ sessions = <<>>
    /\ args \in [value : ZValues, mean : ZMeans, sd : ZSds]
    /\ ret = NoCall

CallZScore ==
    /\ ret.op = "none"
    /\ LET r == calculate_z_score(F(args.value), F(args.mean), F(args.sd))
       IN  ret' = [op |-> "calculate_z_score", exc |-> r.exc, val |-> r.val]
    /\ UNCHANGED <<readings, baselines, scores, sessions, args>>

NextZ == CallZScore

SpecZ == InitZ /\ [][NextZ]_vars

\* C10: calculate_z_score never raises; with sd = 0 it returns exactly 0 whatever
\* value and mean are; with sd # 0 the returned z is the quotient of value - mean
\* by sd: z * sd is within one unit of the last place of value - mean.
C10_ZScoreQuotient ==
    ret.op = "calculate_z_score" =>
        /\ ret.exc = ""
        /\ IsNum(ret.val)
        /\ args.sd = 0 => Val(ret.val) = 0
        /\ args.sd # 0 =>
              Abs(Val(ret.val) * args.sd - (args.value - args.mean) * ONE) < Abs(args.sd)

C10_Witness ==
    /\ ret.op = "calculate_z_score"
    /\ args.sd = 0
    /\ args.value # args.mean
    /\ ret.val = F(0)

----------------------------------------------------------------------------
(* BaselineTracker: z-scores of a reading against a Baseline row *)

\* The guard of lines 201-202 turned into a neutral default: a non-positive RMSSD
\* gives z = 0 instead of an error.
calculate_hrv_z_score_neutral(rmssd, baseline) ==
    IF IsNone(rmssd)
    THEN Raise("TypeError")
    ELSE IF Val(rmssd) <= 0
    THEN Ok(F(0))
    ELSE calculate_z_score(F(np_log(Val(rmssd))),
                           baseline.mean_ln_rmssd, baseline.sd_ln_rmssd)

calculate_hrv_z_score(rmssd, baseline) ==
    IF IsNone(rmssd)
    THEN Raise("TypeError")
    ELSE IF Val(rmssd) <= 0
    THEN Raise("ValueError")
    ELSE calculate_z_score(F(np_log(Val(rmssd))),
                           baseline.mean_ln_rmssd, baseline.sd_ln_rmssd)

calculate_hr_z_score(heart_rate, baseline) ==
    IF IsNone(baseline.mean_hr) \/ IsNone(baseline.sd_hr)
    THEN Raise("ValueError")
    ELSE calculate_z_score(heart_rate, baseline.mean_hr, baseline.sd_hr)

----------------------------------------------------------------------------
(* EnergyBudgetCalculator: the component scores *)

\* Component weights in hundredths (0.40, 0.30, 0.20, 0.10).
weights_hrv == 40

weights_rhr == 30

\* The sleep weight mistaken for the heart-rate weight: the four no longer sum to 1.
weights_sleep_as_rhr == weights_rhr

weights_sleep == 20

weights_stress == 10

\* max(0, min(100, x)) as Python evaluates it: min(100, x) is x only when x < 100,
\* max(0, m) is m only when m > 0, so nan clamps to 100.
Clamp(x) ==
    LET m == IF Lt(x, 100 * ONE) THEN x ELSE F(100 * ONE)
    IN  IF Gt(m, 0) THEN m ELSE F(0)

_calculate_hrv_score(reading, baseline) ==
    LET z == calculate_hrv_z_score(reading.rmssd, baseline)
    IN  IF z.exc # ""
        THEN z
        ELSE LET hrv_score_from_rmssd == Clamp(FLin(50 * ONE, 20, z.val))
             IN  IF Truthy(reading.hf_power) /\ Truthy(baseline.mean_hf_power)
                 THEN LET hf_ratio == Quot(Val(reading.hf_power) * ONE,
                                           Val(baseline.mean_hf_power))
                          hf_score == Clamp(F(50 * ONE + 50 * (hf_ratio - ONE)))
                      IN  Ok(F(Quot(7 * Val(hrv_score_from_rmssd) + 3 * Val(hf_score), 10)))
                 ELSE Ok(hrv_score_from_rmssd)

_calculate_rhr_score(reading, baseline) ==
    IF ~Truthy(baseline.mean_hr) \/ ~Truthy(baseline.sd_hr)
    THEN Ok(F(50 * ONE))
    ELSE LET z == calculate_hr_z_score(reading.mean_hr, baseline)
         IN  IF z.exc # ""
             THEN z
             ELSE Ok(Clamp(FLin(50 * ONE, -20, z.val)))

_calculate_sleep_score(reading) ==
    IF ~IsNone(reading.sleep_quality)
    THEN reading.sleep_quality
    ELSE IF Truthy(reading.sleep_duration)
    THEN LET d == Val(reading.sleep_duration)
         IN  IF 7 * ONE <= d /\ d <= 9 * ONE THEN F(80 * ONE)
             ELSE IF 6 * ONE <= d /\ d <= 10 * ONE THEN F(60 * ONE)
             ELSE IF 5 * ONE <= d /\ d <= 11 * ONE THEN F(40 * ONE)
             ELSE F(30 * ONE)
    ELSE F(50 * ONE)

_calculate_stress_score(reading) ==
    IF ~IsNone(reading.lf_hf_ratio)
    THEN LET q == Val(reading.lf_hf_ratio)
         IN  IF q <= 1500 THEN F(90 * ONE)
             ELSE IF q <= 2500 THEN F(70 * ONE)
             ELSE IF q <= 4000 THEN F(50 * ONE)
             ELSE IF q <= 6000 THEN F(30 * ONE)
             ELSE F(15 * ONE)
    ELSE F(50 * ONE)

----------------------------------------------------------------------------
(* EnergyBudgetCalculator: PEM risk, recommendation, calculate_readiness *)

\* Every order of the rows I of a table with the dates descending: ORDER BY date
\* DESC leaves the order of rows of equal date to the database.
RECURSIVE OrderByDateDesc(_, _)
OrderByDateDesc(table, I) ==
    IF I = {} THEN {<<>>}
    ELSE LET latest == {i \in I : \A j \in I : table[i].date >= table[j].date}
         IN  UNION {{<<table[i]>> \o rest : rest \in OrderByDateDesc(table, I \ {i})} :
                        i \in latest}

\* The query without its user filter: every user's rows of the window.
recent_scores_all_users(table, user_id, current_date) ==
    LET start_date == current_date - 7
        Keep(row) == /\ row.date >= start_date
                     /\ row.date <= current_date
    IN  OrderByDateDesc(table, {i \in DOMAIN table : Keep(table[i])})

\* The query of lines 264-269: the user's rows dated in [current_date - 7,
\* current_date], most recent first.
recent_scores(table, user_id, current_date) ==
    LET start_date == current_date - 7
        Keep(row) == /\ row.user_id = user_id
                     /\ row.date >= start_date
                     /\ row.date <= current_date
    IN  OrderByDateDesc(table, {i \in DOMAIN table : Keep(table[i])})

\* The loop without its break: every low record of the window is counted.
RECURSIVE consecutive_low_days_total(_)
consecutive_low_days_total(recent) ==
    IF recent = <<>> THEN 0
    ELSE IF Lt(Head(recent).hrv_zscore, 0 - ONE)
    THEN 1 + consecutive_low_days_total(Tail(recent))
    ELSE consecutive_low_days_total(Tail(recent))

\* The loop of lines 272-277.
RECURSIVE consecutive_low_days(_)
consecutive_low_days(recent) ==
    IF recent = <<>> THEN 0
    ELSE IF Lt(Head(recent).hrv_zscore, 0 - ONE)
    THEN 1 + consecutive_low_days(Tail(recent))
    ELSE 0

\* The cascade with the heart-rate test made inclusive (rhr z >= 1.4).
risk_level_inclusive(low_days, hrv_zscore, rhr_zscore) ==
    IF low_days >= 3 THEN "high"
    ELSE IF low_days >= 2 THEN "moderate"
    ELSE IF Lt(hrv_zscore, -1500) \/ Gt(rhr_zscore, 1399) THEN "moderate"
    ELSE IF Lt(hrv_zscore, 0 - ONE) THEN "moderate"
    ELSE "low"

\* The cascade of lines 280-289.
risk_level(low_days, hrv_zscore, rhr_zscore) ==
    IF low_days >= 3 THEN "high"
    ELSE IF low_days >= 2 THEN "moderate"
    ELSE IF Lt(hrv_zscore, -1500) \/ Gt(rhr_zscore, 1400) THEN "moderate"
    ELSE IF Lt(hrv_zscore, 0 - ONE) THEN "moderate"
    ELSE "low"

\* _assess_pem_risk on the rows its query returned.
_assess_pem_risk(recent, hrv_zscore, rhr_zscore) ==
    LET low_days == consecutive_low_days(recent)
    IN  [level |-> risk_level(low_days, hrv_zscore, rhr_zscore),
         consecutive_days |-> low_days]

\* The recommendation taken from the energy budget alone, the PEM risk ignored.
_generate_activity_recommendation_budget_only(energy_budget, pem_risk_level, hrv_zscore) ==
    IF energy_budget >= 70 * ONE THEN "normal"
    ELSE IF energy_budget >= 50 * ONE THEN "light"
    ELSE IF energy_budget >= 30 * ONE THEN "reduced"
    ELSE "rest"

_generate_activity_recommendation(energy_budget, pem_risk_level, hrv_zscore) ==
    IF pem_risk_level = "high" THEN "rest"
    ELSE IF energy_budget >= 70 * ONE THEN "normal"
    ELSE IF energy_budget >= 50 * ONE THEN "light"
    ELSE IF energy_budget >= 30 * ONE THEN "reduced"
    ELSE "rest"

\* calculate_readiness; recent is what the query of _assess_pem_risk returned.
calculate_readiness(recent, user_id, hrv_reading, baseline) ==
    LET hrv_score == _calculate_hrv_score(hrv_reading, baseline)
        rhr_score == _calculate_rhr_score(hrv_reading, baseline)
        sleep_score == _calculate_sleep_score(hrv_reading)
        stress_score == _calculate_stress_score(hrv_reading)
        hrv_zscore == calculate_hrv_z_score(hrv_reading.rmssd, baseline)
        rhr_zscore == calculate_hr_z_score(hrv_reading.mean_hr, baseline)
    IN  IF hrv_score.exc # "" THEN hrv_score
        ELSE IF rhr_score.exc # "" THEN rhr_score
        ELSE IF hrv_zscore.exc # "" THEN hrv_zscore
        ELSE IF rhr_zscore.exc # "" THEN rhr_zscore
        ELSE
          LET energy_budget ==
                  Quot(  Val(hrv_score.val) * weights_hrv
                       + Val(rhr_score.val) * weights_rhr
                       + Val(sleep_score) * weights_sleep
                       + Val(stress_score) * weights_stress, 100)
              pem_risk == _assess_pem_risk(recent, hrv_zscore.val, rhr_zscore.val)
              activity_rec == _generate_activity_recommendation(
                                  energy_budget, pem_risk.level, hrv_zscore.val)
          IN  Ok([energy_budget |-> energy_budget,
                  hrv_score |-> Val(hrv_score.val),
                  rhr_score |-> Val(rhr_score.val),
                  sleep_score |-> Val(sleep_score),
                  stress_score |-> Val(stress_score),
                  hrv_zscore |-> hrv_zscore.val,
                  rhr_zscore |-> rhr_zscore.val,
                  pem_risk_level |-> pem_risk.level,
                  consecutive_low_days |-> pem_risk.consecutive_days,
                  activity_recommendation |-> activity_rec])

----------------------------------------------------------------------------
(* Rows of the three tables *)

\* An HRVReading row; the columns no modelled computation reads are left out.
HRVReading(user_id, recorded_at, rmssd, mean_hr, hf_power, lf_hf_ratio, sleep_duration, sleep_quality) ==
    [user_id |-> user_id, recorded_at |-> recorded_at, rmssd |-> rmssd,
     mean_hr |-> mean_hr, hf_power |-> hf_power, lf_hf_ratio |-> lf_hf_ratio,
     sleep_duration |-> sleep_duration, sleep_quality |-> sleep_quality]

\* EnergyBudget(user_id=..., date=..., **readiness_data).
EnergyBudget(user_id, date, readiness_data) ==
    [user_id |-> user_id, date |-> date,
     energy_budget |-> readiness_data.energy_budget,
     hrv_score |-> readiness_data.hrv_score,
     rhr_score |-> readiness_data.rhr_score,
     sleep_score |-> readiness_data.sleep_score,
     stress_score |-> readiness_data.stress_score,
     hrv_zscore |-> readiness_data.hrv_zscore,
     rhr_zscore |-> readiness_data.rhr_zscore,
     pem_risk_level |-> readiness_data.pem_risk_level,
     consecutive_low_days |-> readiness_data.consecutive_low_days,
     activity_recommendation |-> readiness_data.activity_recommendation]

----------------------------------------------------------------------------
(* The readiness specification: a reading, a baseline and a score history   *)
(* are drawn at Init; calculate_readiness is called once on them.           *)

ScoreDay == 10

ScoreReadings ==
    {HRVReading(1, ScoreDay, rmssd, F(75), hf, lfhf, dur, qual) :
        rmssd \in {F(0), F(20), F(40), F(80)},
        hf \in {None, F(0), F(900)},
        lfhf \in {None, F(1500), F(5000), F(7000)},
        dur \in {None, F(0), F(8 * ONE), F(12 * ONE)},
        qual \in {None, F(-10 * ONE), F(85 * ONE), F(150 * ONE)}}

\* (mean_hr, sd_hr) of a baseline: no reading carried a heart rate, one did, all
\* were equal, and three spreads.
ScoreHrStats ==
    {<<None, None>>, <<F(60), None>>, <<F(60), F(0)>>, <<F(60), F(5)>>,
     <<F(60), F(15)>>, <<F(90), F(5)>>}

ScoreBaselines ==
    {[user_id |-> 1, is_active |-> TRUE, start_date |-> ScoreDay - 28,
      end_date |-> ScoreDay, days_count |-> 28,
      mean_ln_rmssd |-> F(3689), sd_ln_rmssd |-> sd, mean_rmssd |-> F(40),
      mean_hr |-> hr[1], sd_hr |-> hr[2], mean_hf_power |-> hf] :
        sd \in {F(0), F(200), F(600), F(693), NaN},
        hr \in ScoreHrStats,
        hf \in {None, F(300)}}

\* A stored score of which only the owner, the date and the HRV z-score matter.
HistoryRow(user_id, date, z) ==
    EnergyBudget(user_id, date,
        [energy_budget |-> 50 * ONE, hrv_score |-> 50 * ONE, rhr_score |-> 50 * ONE,
         sleep_score |-> 50 * ONE, stress_score |-> 50 * ONE, hrv_zscore |-> F(z),
         rhr_zscore |-> F(0), pem_risk_level |-> "low", consecutive_low_days |-> 0,
         activity_recommendation |-> "light"])

ScoreHistories ==
    { <<>>,
      <<HistoryRow(1, ScoreDay - 2, -1200), HistoryRow(2, ScoreDay - 1, 300),
        HistoryRow(1, ScoreDay - 1, -1300)>>,
      <<HistoryRow(1, ScoreDay - 3, -1100), HistoryRow(1, ScoreDay - 1, -1200),
        HistoryRow(1, ScoreDay - 2, -2000)>> }

InitScore ==
    /\ readings = <<>>
    /\ baselines = <<>>
    /\ scores \in ScoreHistories
    /\ sessions = <<>>
    /\ args \in [user_id : {1}, reading : ScoreReadings, baseline : ScoreBaselines]
    /\ ret = NoCall

CallReadiness ==
    /\ ret.op = "none"
    /\ \E recent \in recent_scores(scores, args.user_id, args.reading.recorded_at) :
          LET r == calculate_readiness(recent, args.user_id, args.reading, args.baseline)
          IN  ret' = [op |-> "calculate_readiness", exc |-> r.exc, val |-> r.val,
                      recent |-> recent]
    /\ UNCHANGED <<readings, baselines, scores, sessions, args>>

NextScore == CallReadiness

SpecScore == InitScore /\ [][NextScore]_vars

Returned == ret.op = "calculate_readiness" /\ ret.exc = ""

InScale(x) == 0 <= x /\ x <= 100 * ONE

\* C3: whenever calculate_readiness returns a result, each of hrv_score, rhr_score,
\* sleep_score and stress_score lies in [0, 100] and so does energy_budget, whatever
\* sleep_quality the reading carries.
C3_ScoresInScale ==
    Returned =>
        /\ InScale(ret.val.hrv_score)
        /\ InScale(ret.val.rhr_score)
        /\ InScale(ret.val.sleep_score)
        /\ InScale(ret.val.stress_score)
        /\ InScale(ret.val.energy_budget)

\* C4: when the baseline has no mean_hr or no sd_hr, calculate_readiness does not
\* raise: it returns a complete result whose rhr_score is the neutral 50.
C4_NeutralWithoutHrStats ==
    ( /\ ret.op = "calculate_readiness"
      /\ IsNone(args.baseline.mean_hr) \/ IsNone(args.baseline.sd_hr)
      /\ Gt(args.reading.rmssd, 0) )
    => /\ ret.exc = ""
       /\ ret.val.rhr_score = 50 * ONE

\* C7: the recommendation is "rest" whenever the PEM risk is "high", whatever the
\* energy budget; otherwise "normal" from 70, "light" in [50, 70), "reduced" in
\* [30, 50) and "rest" below 30.
C7_Recommendation ==
    Returned =>
        LET budget == ret.val.energy_budget
            rec == ret.val.activity_recommendation
        IN  /\ ret.val.pem_risk_level = "high" => rec = "rest"
            /\ ret.val.pem_risk_level # "high" =>
                  /\ budget >= 70 * ONE => rec = "normal"
                  /\ (50 * ONE <= budget /\ budget < 70 * ONE) => rec = "light"
                  /\ (30 * ONE <= budget /\ budget < 50 * ONE) => rec = "reduced"
                  /\ budget < 30 * ONE => rec = "rest"

C7_Witness ==
    /\ Returned
    /\ ret.val.pem_risk_level = "high"
    /\ ret.val.energy_budget >= 70 * ONE
    /\ ret.val.activity_recommendation = "rest"

\* C18: the HRV component score is clamp(50 + 20 * hrvZ) on its own unless both the
\* reading and the baseline carry an HF power; whenever both carry one, a reading
\* whose HF power is 0 included, it is 0.7 * clamp(50 + 20 * hrvZ)
\* + 0.3 * clamp(50 + 50 * (hf_power / mean_hf_power - 1)).
C18_HfBlend ==
    Returned =>
        LET from_rmssd == Val(Clamp(FLin(50 * ONE, 20, ret.val.hrv_zscore)))
            hf_power == args.reading.hf_power
            mean_hf_power == args.baseline.mean_hf_power
        IN  IF ~IsNone(hf_power) /\ ~IsNone(mean_hf_power)
            THEN LET hf_ratio == Quot(Val(hf_power) * ONE, Val(mean_hf_power))
                     hf_score == Val(Clamp(F(50 * ONE + 50 * (hf_ratio - ONE))))
                 IN  ret.val.hrv_score = Quot(7 * from_rmssd + 3 * hf_score, 10)
            ELSE ret.val.hrv_score = from_rmssd

\* C19: the sleep score is sleep_quality when present; otherwise, whenever a
\* sleep_duration is present (0 hours included), 80 for 7..9 h, 60 for 6..10 h, 40
\* for 5..11 h and 30 outside; it is the neutral 50 only when neither is present.
C19_SleepBands ==
    Returned =>
        LET quality == args.reading.sleep_quality
            duration == args.reading.sleep_duration
            d == Val(duration)
        IN  ret.val.sleep_score =
                IF ~IsNone(quality) THEN Val(quality)
                ELSE IF IsNone(duration) THEN 50 * ONE
                ELSE IF 7 * ONE <= d /\ d <= 9 * ONE THEN 80 * ONE
                ELSE IF 6 * ONE <= d /\ d <= 10 * ONE THEN 60 * ONE
                ELSE IF 5 * ONE <= d /\ d <= 11 * ONE THEN 40 * ONE
                ELSE 30 * ONE

\* C20: the energy budget is the weighted sum of the four component scores with the
\* weights 0.40, 0.30, 0.20 and 0.10, which sum to 1.0; when the four scores are
\* equal the budget is that score.
C20_WeightedSum ==
    /\ weights_hrv + weights_rhr + weights_sleep + weights_stress = 100
    /\ <<weights_hrv, weights_rhr, weights_sleep, weights_stress>> = <<40, 30, 20, 10>>
    /\ Returned =>
          LET v == ret.val
              sum == 40 * v.hrv_score + 30 * v.rhr_score + 20 * v.sleep_score
                         + 10 * v.stress_score
          IN  /\ v.energy_budget * 100 <= sum
              /\ sum < (v.energy_budget + 1) * 100
              /\ ( /\ v.hrv_score = v.rhr_score
                   /\ v.rhr_score = v.sleep_score
                   /\ v.sleep_score = v.stress_score )
                 => v.energy_budget = v.hrv_score

C20_Witness ==
    /\ Returned
    /\ ret.val.hrv_score = 50 * ONE
    /\ ret.val.rhr_score = 50 * ONE
    /\ ret.val.sleep_score = 50 * ONE
    /\ ret.val.stress_score = 50 * ONE
    /\ ret.val.energy_budget = 50 * ONE

----------------------------------------------------------------------------
(* Stored scores: save_energy_budget and the active baseline *)

Users == {1, 2}

\* get_active_baseline: .first() of the user's active rows; the ids of the rows
\* the query may return, 0 for None.
get_active_baseline(table, user_id) ==
    LET active == {i \in DOMAIN table : table[i].user_id = user_id /\ table[i].is_active}
    IN  IF active = {} THEN {0} ELSE active

\* save_energy_budget: one row added and committed, nothing looked up first.
save_energy_budget(table, user_id, date, readiness_data) ==
    Append(table, EnergyBudget(user_id, date, readiness_data))

(* The score-history specification.  The readings and one active baseline   *)
(* per user are in the database at Init; no two readings of a user share a  *)
(* recorded_at, so (user_id, date) of a stored score names its reading.     *)
(* A reading is scored and the score stored (calculate_readiness, then      *)
(* save_energy_budget), any number of times; _assess_pem_risk is also       *)
(* called on its own with drawn z-scores.                                   *)

MaxScores == 3

PemReadingTable ==
    << HRVReading(1, 1, F(20), F(75), None, None, None, None),
       HRVReading(1, 2, F(20), F(75), None, None, None, None),
       HRVReading(1, 8, F(40), F(75), None, None, None, None),
       HRVReading(1, 9, F(20), F(75), None, None, None, None),
       HRVReading(2, 9, F(20), F(75), None, None, None, None),
       HRVReading(1, 5, F(0), F(75), None, None, None, None),
       HRVReading(1, 3, F(20), F(75), None, None, None, None) >>

PemBaseline(user_id) ==
    [user_id |-> user_id, is_active |-> TRUE, start_date |-> -19, end_date |-> 9,
     days_count |-> 28, mean_ln_rmssd |-> F(3689), sd_ln_rmssd |-> F(600),
     mean_rmssd |-> F(40), mean_hr |-> F(60), sd_hr |-> F(15), mean_hf_power |-> None]

PemZScores == {F(-1600), F(-1500), F(-1100), F(0 - ONE), NaN}

PemRhrZScores == {F(1400), F(1500)}

InitPem ==
    /\ readings = PemReadingTable
    /\ baselines = <<PemBaseline(1), PemBaseline(2)>>
    /\ scores = <<>>
    /\ sessions = <<>>
    /\ args = <<>>
    /\ ret = NoCall

\* calculate_readiness on a stored reading and the user's active baseline, then
\* save_energy_budget dated at the reading's recorded_at.
ScoreReading ==
    /\ Len(scores) < MaxScores
    /\ \E id \in DOMAIN readings :
       \E b \in get_active_baseline(baselines, readings[id].user_id) :
       \E recent \in recent_scores(scores, readings[id].user_id, readings[id].recorded_at) :
          LET reading == readings[id]
              r == calculate_readiness(recent, reading.user_id, reading, baselines[b])
          IN  /\ b # 0
              /\ IF r.exc = ""
                 THEN /\ scores' = save_energy_budget(scores, reading.user_id,
                                                      reading.recorded_at, r.val)
                      /\ ret' = [op |-> "score_reading", exc |-> "", val |-> r.val,
                                 recent |-> recent, user_id |-> reading.user_id,
                                 date |-> reading.recorded_at, reading_id |-> id,
                                 hrv_zscore |-> r.val.hrv_zscore,
                                 rhr_zscore |-> r.val.rhr_zscore,
                                 low_days |-> r.val.consecutive_low_days,
                                 level |-> r.val.pem_risk_level]
                 ELSE /\ scores' = scores
                      /\ ret' = [op |-> "score_reading", exc |-> r.exc, val |-> 0,
                                 recent |-> recent, user_id |-> reading.user_id,
                                 date |-> reading.recorded_at, reading_id |-> id,
                                 hrv_zscore |-> NaN, rhr_zscore |-> NaN,
                                 low_days |-> 0, level |-> ""]
    /\ UNCHANGED <<readings, baselines, sessions, args>>

\* _assess_pem_risk called on its own.
AssessPemRisk ==
    /\ \E user_id \in Users :
       \E recent \in recent_scores(scores, user_id, 9) :
       \E hrv_zscore \in PemZScores, rhr_zscore \in PemRhrZScores :
          LET r == _assess_pem_risk(recent, hrv_zscore, rhr_zscore)
          IN  ret' = [op |-> "_assess_pem_risk", exc |-> "", val |-> r,
                      recent |-> recent, user_id |-> user_id, date |-> 9,
                      reading_id |-> 0, hrv_zscore |-> hrv_zscore,
                      rhr_zscore |-> rhr_zscore, low_days |-> r.consecutive_days,
                      level |-> r.level]
    /\ UNCHANGED <<readings, baselines, scores, sessions, args>>

\* The RMSSD values of direct calls of calculate_hrv_z_score.
HrvRmssds == {F(-5), F(0), F(20), F(40)}

\* calculate_hrv_z_score called on its own.
CallHrvZScore ==
    /\ \E user_id \in Users, rmssd \in HrvRmssds :
          LET r == calculate_hrv_z_score(rmssd, PemBaseline(user_id))
          IN  ret' = [op |-> "calculate_hrv_z_score", exc |-> r.exc, val |-> r.val,
                      rmssd |-> rmssd, user_id |-> user_id]
    /\ UNCHANGED <<readings, baselines, scores, sessions, args>>

NextPem == ScoreReading \/ AssessPemRisk \/ CallHrvZScore

SpecPem == InitPem /\ [][NextPem]_vars

\* A PEM assessment was made, and the table it read.
PemCall == ret.op \in {"score_reading", "_assess_pem_risk"} /\ ret.exc = ""

PemBefore ==
    IF ret.op = "score_reading" THEN SubSeq(scores, 1, Len(scores) - 1) ELSE scores

InPemWindow(row) ==
    /\ row.user_id = ret.user_id
    /\ ret.date - 7 <= row.date
    /\ row.date <= ret.date

Copies(table, row) == Cardinality({i \in DOMAIN table : table[i] = row})

\* C5: consecutive_low_days is the length of the longest prefix, all of whose
\* records have hrv_zscore < -1.0, of the score history: the user's records dated
\* in the trailing 7 days, most recent first.  The count stops at the first record
\* with hrv_zscore >= -1.0: it is a run length, not the number of low records.
C5_StreakIsLowPrefix ==
    PemCall =>
        LET h == ret.recent
            n == ret.low_days
        IN  /\ \A i \in DOMAIN h : InPemWindow(h[i])
            /\ \A i \in DOMAIN PemBefore :
                  InPemWindow(PemBefore[i]) =>
                      Copies(h, PemBefore[i]) = Copies(PemBefore, PemBefore[i])
            /\ \A i, j \in DOMAIN h : i < j => h[i].date >= h[j].date
            /\ 0 <= n /\ n <= Len(h)
            /\ \A i \in 1..n : Val(h[i].hrv_zscore) < 0 - ONE
            /\ n < Len(h) => Val(h[n + 1].hrv_zscore) >= 0 - ONE

C5_Witness ==
    /\ PemCall
    /\ ret.low_days = 1
    /\ Len(ret.recent) = 3
    /\ Val(ret.recent[3].hrv_zscore) < 0 - ONE

\* C6: the PEM risk level is "high" exactly when the streak is >= 3; otherwise
\* "moderate" exactly when the streak is >= 2, or hrv z < -1.5, or rhr z > 1.4, or
\* hrv z < -1.0; otherwise "low".  No other value is produced.
C6_RiskCascade ==
    PemCall =>
        LET n == ret.low_days
            z == ret.hrv_zscore
            rz == ret.rhr_zscore
            some == \/ n >= 2
                    \/ IsNum(z) /\ Val(z) < -1500
                    \/ IsNum(rz) /\ Val(rz) > 1400
                    \/ IsNum(z) /\ Val(z) < 0 - ONE
        IN  /\ ret.level \in {"low", "moderate", "high"}
            /\ ret.level = "high" <=> n >= 3
            /\ ret.level = "moderate" <=> (n < 3 /\ some)
            /\ ret.level = "low" <=> (n < 3 /\ ~some)

C6_Witness ==
    /\ PemCall
    /\ ret.low_days = 0
    /\ ret.hrv_zscore = F(0 - ONE)
    /\ ret.rhr_zscore = F(1500)
    /\ ret.level = "moderate"

\* C8: the stored score history holds at most one EnergyBudget record per (user,
\* reading) pair, however often a reading is scored.
C8_OneScorePerReading ==
    \A id \in DOMAIN readings :
        Cardinality({k \in DOMAIN scores :
                        /\ scores[k].user_id = readings[id].user_id
                        /\ scores[k].date = readings[id].recorded_at}) <= 1

\* C11: calculate_hrv_z_score raises ValueError for every rmssd <= 0, and the
\* failure is surfaced: scoring a stored reading whose RMSSD is 0 raises ValueError,
\* returns no result, and no EnergyBudget row of that reading is ever stored.
C11_NonPositiveRmssdRaises ==
    /\ (ret.op = "calculate_hrv_z_score" /\ Val(ret.rmssd) <= 0) =>
           ret.exc = "ValueError"
    /\ (ret.op = "score_reading" /\ Val(readings[ret.reading_id].rmssd) <= 0) =>
           /\ ret.exc = "ValueError"
           /\ ret.val = 0
    /\ \A id \in DOMAIN readings :
           Val(readings[id].rmssd) <= 0 =>
               \A k \in DOMAIN scores :
                   ~(/\ scores[k].user_id = readings[id].user_id
                     /\ scores[k].date = readings[id].recorded_at)

C11_Witness ==
    /\ ret.op = "score_reading"
    /\ readings[ret.reading_id].rmssd = F(0)
    /\ ret.exc = "ValueError"
    /\ Len(scores) = 2

\* The calendar days that have a record in the history a PEM assessment read.
DaysOf(h) == {h[i].date : i \in DOMAIN h}

\* C22: the PEM streak counts days: score records dated on the same calendar day
\* contribute at most 1 to consecutive_low_days, so the count never exceeds the
\* number of distinct days that have a record in the trailing 7-day window.
C22_StreakCountsDays ==
    PemCall => ret.low_days <= Cardinality(DaysOf(ret.recent))

\* C23: when the reading being scored has hrv z-score < -1.0 and the two
\* immediately preceding scored days also have hrv z-score < -1.0 (three
\* consecutive low days ending today), the PEM risk assigned to it is "high".
C23_ThreeLowDaysIsHigh ==
    (/\ ret.op = "score_reading"
     /\ ret.exc = ""
     /\ IsNum(ret.hrv_zscore)
     /\ Val(ret.hrv_zscore) < 0 - ONE
     /\ Len(ret.recent) >= 2
     /\ ret.recent[1].date = ret.date - 1
     /\ ret.recent[2].date = ret.date - 2
     /\ Val(ret.recent[1].hrv_zscore) < 0 - ONE
     /\ Val(ret.recent[2].hrv_zscore) < 0 - ONE)
        => ret.level = "high"

----------------------------------------------------------------------------
(* BaselineTracker.save_baseline *)

\* The columns of Baseline that a baseline_data dictionary may set; total and LF
\* power are columns too, but no modelled computation reads them.
BaselineColumns ==
    {"start_date", "end_date", "days_count", "mean_ln_rmssd", "sd_ln_rmssd",
     "mean_rmssd", "mean_hr", "sd_hr", "mean_total_power", "mean_hf_power",
     "mean_lf_power"}

\* Baseline(user_id=..., is_active=True, **baseline_data): the declarative
\* constructor accepts only the mapped columns and raises TypeError for any other
\* keyword.
Baseline(user_id, baseline_data) ==
    IF DOMAIN baseline_data \subseteq BaselineColumns
    THEN Ok([user_id |-> user_id, is_active |-> TRUE,
             start_date |-> baseline_data.start_date,
             end_date |-> baseline_data.end_date,
             days_count |-> baseline_data.days_count,
             mean_ln_rmssd |-> baseline_data.mean_ln_rmssd,
             sd_ln_rmssd |-> baseline_data.sd_ln_rmssd,
             mean_rmssd |-> baseline_data.mean_rmssd,
             mean_hr |-> baseline_data.mean_hr,
             sd_hr |-> baseline_data.sd_hr,
             mean_hf_power |-> baseline_data.mean_hf_power])
    ELSE Raise("TypeError")

\* The UPDATE left out: nothing is deactivated.
previous_active_none(table, user_id) == {}

\* The rows the UPDATE of lines 120-123 matches.
previous_active(table, user_id) ==
    {i \in DOMAIN table : table[i].user_id = user_id /\ table[i].is_active = TRUE}

\* .update({'is_active': False}) on the rows ids.
deactivate(table, ids) ==
    [i \in DOMAIN table |->
        IF i \in ids THEN [table[i] EXCEPT !.is_active = FALSE] ELSE table[i]]

\* The failing save with the UPDATE of lines 120-123 committed all the same.
save_baseline_update_kept(table, user_id, baseline_data) ==
    LET updated == deactivate(table, previous_active(table, user_id))
        baseline == Baseline(user_id, baseline_data)
    IN  IF baseline.exc # ""
        THEN [table |-> updated, exc |-> baseline.exc, id |-> 0]
        ELSE [table |-> Append(updated, baseline.val), exc |-> "",
              id |-> Len(table) + 1]

\* save_baseline in a session of its own, with no other session open: the table
\* after the call and what the call returned.  When the constructor raises, the
\* UPDATE already issued is never committed.
save_baseline(table, user_id, baseline_data) ==
    LET updated == deactivate(table, previous_active(table, user_id))
        baseline == Baseline(user_id, baseline_data)
    IN  IF baseline.exc # ""
        THEN [table |-> table, exc |-> baseline.exc, id |-> 0]
        ELSE [table |-> Append(updated, baseline.val), exc |-> "",
              id |-> Len(table) + 1]

(* The activation specification: save_baseline is called again and again,  *)
(* one call after the other, for either user.                               *)

MaxBaselines == 4

\* Two dictionaries of Baseline columns, and the first with the readings_count key
\* that calculate_baseline adds.
BaselineDicts ==
    LET a == [start_date |-> 1, end_date |-> 29, days_count |-> 28,
              mean_ln_rmssd |-> F(3689), sd_ln_rmssd |-> F(600), mean_rmssd |-> F(40),
              mean_hr |-> F(60), sd_hr |-> F(15), mean_hf_power |-> None]
    IN  { a,
          [a EXCEPT !.mean_ln_rmssd = F(2996), !.sd_ln_rmssd = F(200)],
          [start_date |-> 1, end_date |-> 29, days_count |-> 28, readings_count |-> 7,
           mean_ln_rmssd |-> F(3689), sd_ln_rmssd |-> F(600), mean_rmssd |-> F(40),
           mean_hr |-> F(60), sd_hr |-> F(15), mean_hf_power |-> None] }

InitActive ==
    /\ readings = <<>>
    /\ baselines = <<>>
    /\ scores = <<>>
    /\ sessions = <<>>
    /\ args = <<>>
    /\ ret = NoCall

SaveBaseline ==
    /\ Len(baselines) < MaxBaselines
    /\ \E user_id \in Users, baseline_data \in BaselineDicts :
          LET r == save_baseline(baselines, user_id, baseline_data)
          IN  /\ baselines' = r.table
              /\ ret' = [op |-> "save_baseline", exc |-> r.exc, val |-> r.id,
                         user_id |-> user_id]
    /\ UNCHANGED <<readings, scores, sessions, args>>

NextActive == SaveBaseline

SpecActive == InitActive /\ [][NextActive]_vars

RowsOf(table, user_id) == {i \in DOMAIN table : table[i].user_id = user_id}

ActiveOf(table, user_id) ==
    {i \in DOMAIN table : table[i].user_id = user_id /\ table[i].is_active}

\* C1: after any sequence of save_baseline calls made one after another, for any
\* mix of users, every user with a saved baseline has exactly one active baseline,
\* and it is the one saved last for that user.
C1_SingleActiveIsLatest ==
    \A u \in Users :
        RowsOf(baselines, u) # {} =>
            \E i \in RowsOf(baselines, u) :
                /\ ActiveOf(baselines, u) = {i}
                /\ \A j \in RowsOf(baselines, u) : j <= i

C1_Witness ==
    /\ ret.op = "save_baseline"
    /\ ret.exc = ""
    /\ Cardinality(RowsOf(baselines, 1)) >= 2
    /\ Cardinality(RowsOf(baselines, 2)) >= 1
    /\ ActiveOf(baselines, 1) = {Len(baselines)}

----------------------------------------------------------------------------
(* save_baseline under concurrent requests.  Every request runs save_baseline *)
(* in a database session of its own; the statements of two sessions          *)
(* interleave.  Nothing in save_baseline or in the endpoint that calls it     *)
(* takes a lock, checks a version or retries.                                 *)

MaxSessions == 2

Idle == [pc |-> "idle", user_id |-> 0, matched |-> {}, pending |-> <<>>]

\* What a statement of a session reads: the committed rows.  The writes of a
\* session reach the table when the session commits, and until then no other
\* session sees them.
committed_view(table) == table

InitConc ==
    /\ readings = <<>>
    /\ baselines = <<>>
    /\ scores = <<>>
    /\ sessions = [s \in 1..MaxSessions |-> Idle]
    /\ args = <<>>
    /\ ret = NoCall

\* Lines 120-123: the UPDATE that deactivates the user's active baselines, the
\* first statement of the call.
DeactivatePrevious(s) ==
    /\ sessions[s].pc = "idle"
    /\ Len(baselines) + Cardinality({t \in 1..MaxSessions : sessions[t].pc # "idle"})
          < MaxBaselines
    /\ \E user_id \in Users :
          sessions' = [sessions EXCEPT ![s] =
              [pc |-> "updated", user_id |-> user_id,
               matched |-> previous_active(committed_view(baselines), user_id),
               pending |-> <<>>]]
    /\ ret' = [NoCall EXCEPT !.op = "update"]
    /\ UNCHANGED <<readings, baselines, scores, args>>

\* Lines 126-131: the new Baseline is constructed and added to the session.
AddBaseline(s) ==
    /\ sessions[s].pc = "updated"
    /\ \E baseline_data \in BaselineDicts :
          LET baseline == Baseline(sessions[s].user_id, baseline_data)
          IN  /\ baseline.exc = ""
              /\ sessions' = [sessions EXCEPT ![s].pc = "added",
                                              ![s].pending = <<baseline.val>>]
    /\ ret' = [NoCall EXCEPT !.op = "add"]
    /\ UNCHANGED <<readings, baselines, scores, args>>

\* Line 126 when the dictionary has a key that is no column: the call raises and
\* the session is closed without a commit.
AddBaselineRaises(s) ==
    /\ sessions[s].pc = "updated"
    /\ \E baseline_data \in BaselineDicts :
          Baseline(sessions[s].user_id, baseline_data).exc # ""
    /\ sessions' = [sessions EXCEPT ![s] = Idle]
    /\ ret' = [NoCall EXCEPT !.op = "add", !.exc = "TypeError"]
    /\ UNCHANGED <<readings, baselines, scores, args>>

\* Line 132: commit publishes the deactivations and the new row.
Commit(s) ==
    /\ sessions[s].pc = "added"
    /\ baselines' = deactivate(baselines, sessions[s].matched) \o sessions[s].pending
    /\ sessions' = [sessions EXCEPT ![s] = Idle]
    /\ ret' = [NoCall EXCEPT !.op = "commit"]
    /\ UNCHANGED <<readings, scores, args>>

NextConc ==
    \E s \in 1..MaxSessions :
        \/ DeactivatePrevious(s)
        \/ AddBaseline(s)
        \/ AddBaselineRaises(s)
        \/ Commit(s)

SpecConc == InitConc /\ [][NextConc]_vars

\* C2: when save_baseline calls of concurrent requests interleave, no user ever
\* has two active baselines among the committed rows.
C2_AtMostOneActive ==
    \A u \in Users : Cardinality(ActiveOf(baselines, u)) <= 1

----------------------------------------------------------------------------
(* BaselineTracker.calculate_baseline *)

baseline_days == 28

\* The minimum lowered to a single reading.
min_readings_lowered == 1 * 1

min_readings_required == 7

RECURSIVE SqrtBetween(_, _, _)
\* The floor of the square root of n, searched between lo and hi.
SqrtBetween(n, lo, hi) ==
    IF hi - lo <= 1 THEN lo
    ELSE LET mid == (lo + hi) \div 2
         IN  IF mid * mid <= n THEN SqrtBetween(n, mid, hi)
             ELSE SqrtBetween(n, lo, mid)

\* np.mean: NaN for an empty list.
np_mean(xs) == IF xs = <<>> THEN NaN ELSE F(Quot(SumSeq(xs), Len(xs)))

\* np.std(xs, ddof=1): NaN with fewer than two values.
np_std(xs) ==
    IF Len(xs) < 2 THEN NaN
    ELSE LET n == Len(xs)
             sum == SumSeq(xs)
             squares == SumSeq([i \in DOMAIN xs |-> xs[i] * xs[i]])
             variance == Quot(n * squares - sum * sum, n * (n - 1))
         IN  F(SqrtBetween(variance, 0, IF variance < 46340 THEN variance + 1 ELSE 46340))

\* [r.col for r in rows if r.col is not None]
not_none(rows, col) ==
    LET kept == SelectSeq(rows, LAMBDA r : ~IsNone(r[col]))
    IN  [i \in DOMAIN kept |-> Val(kept[i][col])]

\* The filter of lines 54-55 on recorded_at.
in_window_exclusive(recorded_at, start_date, end_date) ==
    recorded_at > start_date /\ recorded_at <= end_date

in_window(recorded_at, start_date, end_date) ==
    recorded_at >= start_date /\ recorded_at <= end_date

\* The call returns None (is_none) or the dictionary; it raises nothing and writes
\* nothing.  The result does not depend on the order of the rows.
calculate_baseline(table, user_id, end_date) ==
    LET start_date == end_date - baseline_days
        rows == SelectSeq(table, LAMBDA r :
                    /\ r.user_id = user_id
                    /\ in_window(r.recorded_at, start_date, end_date))
        rmssd_values == not_none(rows, "rmssd")
        hr_values == not_none(rows, "mean_hr")
        hf_power_values == not_none(rows, "hf_power")
        positive == SelectSeq(rmssd_values, LAMBDA r : r > 0)
        ln_rmssd_values == [i \in DOMAIN positive |-> np_log(positive[i])]
    IN  IF Len(rows) < min_readings_required
        THEN [is_none |-> TRUE, dict |-> <<>>]
        ELSE IF Len(rmssd_values) < min_readings_required
        THEN [is_none |-> TRUE, dict |-> <<>>]
        ELSE [is_none |-> FALSE,
              dict |-> [start_date |-> start_date,
                        end_date |-> end_date,
                        days_count |-> end_date - start_date,
                        readings_count |-> Len(rows),
                        mean_ln_rmssd |-> np_mean(ln_rmssd_values),
                        sd_ln_rmssd |-> np_std(ln_rmssd_values),
                        mean_rmssd |-> np_mean(rmssd_values),
                        mean_hr |-> IF hr_values # <<>> THEN np_mean(hr_values)
                                    ELSE None,
                        sd_hr |-> IF Len(hr_values) > 1 THEN np_std(hr_values)
                                  ELSE None,
                        mean_hf_power |-> IF hf_power_values # <<>>
                                          THEN np_mean(hf_power_values) ELSE None]]

(* The baseline specification: readings are stored one at a time and        *)
(* calculate_baseline is called on what is stored.                          *)

MaxReadings == 8

\* The two end dates of the calls: with readings on days 1, 29 and 30, day 1 is
\* the first day of the window that ends on day 29 and the day before the window
\* that ends on day 30; day 30 is after the first window and the last day of
\* the second.
EndDates == {29, 30}

ReadingKinds ==
    {HRVReading(1, d, F(40), F(60), None, None, None, None) : d \in {1, 29, 30}}
    \cup {HRVReading(1, d, None, None, None, None, None, None) : d \in {1, 29, 30}}
    \cup {HRVReading(1, 29, F(20), F(90), F(900), None, None, None),
          HRVReading(1, 29, F(0), F(60), None, None, None, None),
          HRVReading(2, 29, F(40), F(60), None, None, None, None)}

\* The position of a row in the listing of the table.
Rank(row) ==
    ((row.user_id * 100 + row.recorded_at) * 100
        + (IF IsNone(row.rmssd) THEN 0 ELSE Val(row.rmssd) + 1))

\* db.add(reading); db.commit().  A table is a collection of rows with no order of
\* its own; it is listed by user, date and RMSSD.
add_reading(table, row) ==
    LET k == Cardinality({i \in DOMAIN table : Rank(table[i]) <= Rank(row)})
    IN  SubSeq(table, 1, k) \o <<row>> \o SubSeq(table, k + 1, Len(table))

InitBaseline ==
    /\ readings = <<>>
    /\ baselines = <<>>
    /\ scores = <<>>
    /\ sessions = <<>>
    /\ args = <<>>
    /\ ret = NoCall

AddReading ==
    /\ Len(readings) < MaxReadings
    /\ \E row \in ReadingKinds : readings' = add_reading(readings, row)
    /\ ret' = [NoCall EXCEPT !.op = "add_reading"]
    /\ UNCHANGED <<baselines, scores, sessions, args>>

CalculateBaseline ==
    /\ \E user_id \in Users, end_date \in EndDates :
          LET r == calculate_baseline(readings, user_id, end_date)
          IN  ret' = [op |-> "calculate_baseline", exc |-> "", val |-> 0,
                      is_none |-> r.is_none, dict |-> r.dict,
                      user_id |-> user_id, end_date |-> end_date]
    /\ UNCHANGED <<readings, baselines, scores, sessions, args>>

NextBaseline == AddReading \/ CalculateBaseline

SpecBaseline == InitBaseline /\ [][NextBaseline]_vars

\* The stored readings of the last call's user whose recorded_at lies in the
\* inclusive 28 days before the call's end date.
WindowOfCall ==
    {i \in DOMAIN readings :
        /\ readings[i].user_id = ret.user_id
        /\ readings[i].recorded_at >= ret.end_date - 28
        /\ readings[i].recorded_at <= ret.end_date}

\* C9: calculate_baseline returns None, raising nothing and storing nothing,
\* exactly when the user has fewer than 7 readings in the inclusive window
\* [end_date - 28 days, end_date] or fewer than 7 of those readings have an RMSSD;
\* in every other case it returns a dictionary.
C9_NoneIffInsufficient ==
    ret.op = "calculate_baseline" =>
        /\ ret.exc = ""
        /\ baselines = <<>>
        /\ ret.is_none <=>
              \/ Cardinality(WindowOfCall) < 7
              \/ Cardinality({i \in WindowOfCall : ~IsNone(readings[i].rmssd)}) < 7
        /\ ~ret.is_none => ret.dict.readings_count = Cardinality(WindowOfCall)

C9_Witness ==
    /\ ret.op = "calculate_baseline"
    /\ ~ret.is_none
    /\ Cardinality(WindowOfCall) = 7
    /\ \E i \in WindowOfCall : readings[i].recorded_at = ret.end_date - 28
    /\ \E i \in WindowOfCall : readings[i].recorded_at = ret.end_date
    /\ \E i \in DOMAIN readings : readings[i].user_id # ret.user_id

\* C25: whenever calculate_baseline returns a dictionary, its mean_ln_rmssd and
\* sd_ln_rmssd are defined numbers: at least two readings of the window have a
\* strictly positive RMSSD, although the minimum-readings check counts every
\* non-null RMSSD, zeros included.
C25_LnStatsDefined ==
    (ret.op = "calculate_baseline" /\ ~ret.is_none) =>
        /\ IsNum(ret.dict.mean_ln_rmssd)
        /\ IsNum(ret.dict.sd_ln_rmssd)
        /\ Cardinality({i \in WindowOfCall :
                           /\ ~IsNone(readings[i].rmssd)
                           /\ Val(readings[i].rmssd) > 0}) >= 2

----------------------------------------------------------------------------
(* BaselineTracker.interpret_hrv_z_score *)

\* x >= c for a float x and a number c: false for nan.
Ge(x, c) == IsNum(x) /\ Val(x) >= c

Interpretation(z_score, status, interpretation, color) ==
    [z_score |-> z_score, status |-> status, interpretation |-> interpretation,
     color |-> color]

\* The first test made strict (z > 0.5).
interpret_hrv_z_score_strict(z_score) ==
    IF Gt(z_score, 500)
    THEN Interpretation(z_score, "excellent",
                        "Well above baseline - excellent recovery", "green")
    ELSE IF Ge(z_score, 0)
    THEN Interpretation(z_score, "good", "Above baseline - good recovery", "green")
    ELSE IF Ge(z_score, -500)
    THEN Interpretation(z_score, "fair",
                        "Slightly below baseline - monitor closely", "yellow")
    ELSE IF Ge(z_score, 0 - ONE)
    THEN Interpretation(z_score, "low",
                        "Below baseline - consider reducing activity", "orange")
    ELSE IF Ge(z_score, -1500)
    THEN Interpretation(z_score, "warning",
                        "Significantly below baseline - rest recommended", "red")
    ELSE Interpretation(z_score, "critical",
                        "Critically low - prioritize rest and recovery", "red")

interpret_hrv_z_score(z_score) ==
    IF Ge(z_score, 500)
    THEN Interpretation(z_score, "excellent",
                        "Well above baseline - excellent recovery", "green")
    ELSE IF Ge(z_score, 0)
    THEN Interpretation(z_score, "good", "Above baseline - good recovery", "green")
    ELSE IF Ge(z_score, -500)
    THEN Interpretation(z_score, "fair",
                        "Slightly below baseline - monitor closely", "yellow")
    ELSE IF Ge(z_score, 0 - ONE)
    THEN Interpretation(z_score, "low",
                        "Below baseline - consider reducing activity", "orange")
    ELSE IF Ge(z_score, -1500)
    THEN Interpretation(z_score, "warning",
                        "Significantly below baseline - rest recommended", "red")
    ELSE Interpretation(z_score, "critical",
                        "Critically low - prioritize rest and recovery", "red")

(* The interpretation specification: a z-score is drawn at Init, every      *)
(* thousandth from -1.6 to 0.6 and nan; one call.                           *)

InterpretZScores == {F(z) : z \in -1600..600} \cup {NaN}

InitInterpret ==
    /\ readings = <<>>
    /\ baselines = <<>>
    /\ scores = <<>>
    /\ sessions = <<>>
    /\ args \in [z_score : InterpretZScores]
    /\ ret = NoCall

CallInterpret ==
    /\ ret.op = "none"
    /\ ret' = [op |-> "interpret_hrv_z_score", exc |-> "",
               val |-> interpret_hrv_z_score(args.z_score)]
    /\ UNCHANGED <<readings, baselines, scores, sessions, args>>

NextInterpret == CallInterpret

SpecInterpret == InitInterpret /\ [][NextInterpret]_vars

\* C12: interpret_hrv_z_score puts every z-score in exactly one of six buckets by
\* fixed thresholds: z >= 0.5 excellent, 0 <= z < 0.5 good, -0.5 <= z < 0 fair,
\* -1.0 <= z < -0.5 low, -1.5 <= z < -1.0 warning, z < -1.5 critical; the z-score is
\* returned unchanged.  A nan, which no comparison accepts, falls through to the
\* last bucket.
C12_SixBuckets ==
    ret.op = "interpret_hrv_z_score" =>
        LET z == args.z_score
            status == ret.val.status
        IN  /\ ret.val.z_score = z
            /\ status \in {"excellent", "good", "fair", "low", "warning", "critical"}
            /\ IsNum(z) =>
                  /\ status = "excellent" <=> Val(z) >= 500
                  /\ status = "good" <=> (0 <= Val(z) /\ Val(z) < 500)
                  /\ status = "fair" <=> (-500 <= Val(z) /\ Val(z) < 0)
                  /\ status = "low" <=> (-1000 <= Val(z) /\ Val(z) < -500)
                  /\ status = "warning" <=> (-1500 <= Val(z) /\ Val(z) < -1000)
                  /\ status = "critical" <=> Val(z) < -1500
            /\ IsNaN(z) => status = "critical"

C12_Witness ==
    /\ ret.op = "interpret_hrv_z_score"
    /\ args.z_score = F(-1500)
    /\ ret.val.status = "warning"

----------------------------------------------------------------------------
(* HRVCalculator.check_data_quality.  RR intervals are whole milliseconds;  *)
(* heart-rate limits are whole beats per minute.                            *)

\* np.diff: the successive differences, empty for fewer than two values.
np_diff(rr_array) == [i \in 1..(Len(rr_array) - 1) |-> rr_array[i + 1] - rr_array[i]]

\* (rr_array > max_rri) | (rr_array < min_rri) with max_rri = 60000 / min_hr and
\* min_rri = 60000 / max_hr, for positive limits: the positions that are true.
invalid_rri(rr_array, max_hr, min_hr) ==
    {i \in DOMAIN rr_array :
        rr_array[i] * min_hr > 60000 \/ rr_array[i] * max_hr < 60000}

\* np.abs(np.diff(rr_array)) > 300: the positions that are true.
extreme_diffs(rr_array) ==
    LET successive_diffs == np_diff(rr_array)
    IN  {i \in DOMAIN successive_diffs : Abs(successive_diffs[i]) > 300}

\* Each interval counted once, however many of the two checks it fails: an
\* interval is an artifact when it is out of range or jumps from its predecessor.
artifact_count_deduplicated(rr_array, max_hr, min_hr) ==
    Cardinality(invalid_rri(rr_array, max_hr, min_hr)
                \cup {i + 1 : i \in extreme_diffs(rr_array)})

\* Lines 241 and 248: the two counts added.
artifact_count(rr_array, max_hr, min_hr) ==
    Cardinality(invalid_rri(rr_array, max_hr, min_hr))
        + Cardinality(extreme_diffs(rr_array))

\* The division without its guard: numpy divides 0 by 0 to nan.
artifact_percentage_unguarded(count, total_intervals) ==
    IF total_intervals = 0 THEN NaN
    ELSE F(Quot(count * 100 * ONE, total_intervals))

\* Line 254, in thousandths of a percent.
artifact_percentage(count, total_intervals) ==
    IF total_intervals > 0 THEN F(Quot(count * 100 * ONE, total_intervals))
    ELSE F(0)

\* The artifact test made inclusive (<= 5.0).
is_valid_inclusive(percentage, total_intervals) ==
    ~Gt(percentage, 5 * ONE) /\ total_intervals >= 60

\* Line 257.
is_valid(percentage, total_intervals) ==
    Lt(percentage, 5 * ONE) /\ total_intervals >= 60

check_data_quality(rr_intervals, max_hr, min_hr) ==
    IF min_hr = 0 \/ max_hr = 0
    THEN Raise("ZeroDivisionError")
    ELSE
      LET invalid == invalid_rri(rr_intervals, max_hr, min_hr)
          extreme == extreme_diffs(rr_intervals)
          count == artifact_count(rr_intervals, max_hr, min_hr)
          total_intervals == Len(rr_intervals)
          percentage == artifact_percentage(count, total_intervals)
          issues ==
              (IF invalid # {} THEN <<"physiologically impossible RR intervals">>
               ELSE <<>>)
              \o (IF extreme # {} THEN <<"extreme successive differences">> ELSE <<>>)
              \o (IF Ge(percentage, 5 * ONE) THEN <<"High artifact rate">> ELSE <<>>)
              \o (IF total_intervals < 60 THEN <<"Insufficient data">> ELSE <<>>)
      IN  Ok([is_valid |-> is_valid(percentage, total_intervals),
              artifact_count |-> count,
              artifact_percentage |-> percentage,
              total_intervals |-> total_intervals,
              issues |-> issues])

----------------------------------------------------------------------------
(* HRVCalculator: time domain, frequency domain, all metrics.  Intervals,   *)
(* their mean, SDNN, RMSSD and the heart rate are whole numbers (ms, bpm),  *)
(* band powers whole ms^2; PNN50, LF/HF and the normalised units are in     *)
(* thousandths.  The intervals of a series are positive.                    *)

\* raise e(msg)
RaiseWith(e, msg) == [exc |-> e, val |-> 0, msg |-> msg]

TimeDomainError == "Need at least 2 RR intervals for time domain analysis"

FrequencyDomainError == "Need at least 60 RR intervals for frequency domain analysis"

\* np.sqrt on a whole number, rounded down.
np_sqrt(x) == SqrtBetween(x, 0, IF x < 46340 THEN x + 1 ELSE 46340)

calculate_time_domain(rr_intervals) ==
    IF Len(rr_intervals) < 2
    THEN RaiseWith("ValueError", TimeDomainError)
    ELSE
      LET n == Len(rr_intervals)
          mean_rri == Quot(SumSeq(rr_intervals), n)
          mean_hr == Quot(60000, mean_rri)
          deviations == [i \in 1..n |-> (rr_intervals[i] - mean_rri)
                                            * (rr_intervals[i] - mean_rri)]
          sdnn == np_sqrt(Quot(SumSeq(deviations), n - 1))
          successive_diffs == np_diff(rr_intervals)
          squares == [i \in DOMAIN successive_diffs |->
                         successive_diffs[i] * successive_diffs[i]]
          rmssd == np_sqrt(Quot(SumSeq(squares), Len(successive_diffs)))
          nn50_count == Cardinality({i \in DOMAIN successive_diffs :
                                        Abs(successive_diffs[i]) > 50})
          pnn50 == Quot(nn50_count * 100 * ONE, Len(successive_diffs))
      IN  Ok([mean_rri |-> mean_rri, mean_hr |-> mean_hr, sdnn |-> sdnn,
              rmssd |-> rmssd, pnn50 |-> pnn50])

\* The powers of the VLF, LF and HF bands (np.trapz over the density that
\* scipy.signal.welch estimates): values of the library, any of which the
\* resampled series may give.
WelchBandPowers == {<<0, 0, 0>>, <<100, 600, 300>>, <<50, 0, 200>>}

\* band_powers is what lines 115-133 compute from the series.
calculate_frequency_domain(rr_intervals, method, band_powers) ==
    IF Len(rr_intervals) < 60
    THEN RaiseWith("ValueError", FrequencyDomainError)
    ELSE IF method = "welch"
    THEN
      LET vlf_power == band_powers[1]
          lf_power == band_powers[2]
          hf_power == band_powers[3]
          total_power == vlf_power + lf_power + hf_power
          lf_hf_ratio == IF hf_power > 0 THEN Quot(lf_power * ONE, hf_power) ELSE 0
          total_minus_vlf == total_power - vlf_power
          lf_nu == IF total_minus_vlf > 0
                   THEN Quot(lf_power * 100 * ONE, total_minus_vlf) ELSE 0
          hf_nu == IF total_minus_vlf > 0
                   THEN Quot(hf_power * 100 * ONE, total_minus_vlf) ELSE 0
      IN  Ok([vlf_power |-> vlf_power, lf_power |-> lf_power, hf_power |-> hf_power,
              total_power |-> total_power, lf_hf_ratio |-> lf_hf_ratio,
              lf_nu |-> lf_nu, hf_nu |-> hf_nu])
    ELSE RaiseWith("NotImplementedError", "AR method not yet implemented")

\* The frequency-domain failure logged and swallowed: the time-domain metrics are
\* returned on their own.
calculate_all_metrics_partial(rr_intervals, band_powers) ==
    LET time_metrics == calculate_time_domain(rr_intervals)
        freq_metrics == calculate_frequency_domain(rr_intervals, "welch", band_powers)
    IN  IF time_metrics.exc # "" THEN time_metrics
        ELSE IF freq_metrics.exc # "" THEN Ok(time_metrics.val)
        ELSE Ok(freq_metrics.val @@ time_metrics.val)

\* Both except clauses log and re-raise; metrics.update lets the later keys win.
calculate_all_metrics(rr_intervals, band_powers) ==
    LET time_metrics == calculate_time_domain(rr_intervals)
        freq_metrics == calculate_frequency_domain(rr_intervals, "welch", band_powers)
    IN  IF time_metrics.exc # "" THEN time_metrics
        ELSE IF freq_metrics.exc # "" THEN freq_metrics
        ELSE Ok(freq_metrics.val @@ time_metrics.val)

(* The HRV specification: an interval series is drawn at Init and one       *)
(* method of HRVCalculator is called on it.  A series is a steady 800 ms    *)
(* rhythm of one of seven lengths with up to three intervals replaced.     *)

BaseRri == 800

SeriesLengths == {0, 1, 2, 59, 60, 61, 80}

SpikePositions == {1, 30, 60}

\* 200 and 2500 are out of range and jump; 320 is out of range only under the
\* narrower limits; 1150 jumps by more than 300 within range; 1100 jumps by
\* exactly 300.
SpikeValues == {200, 320, 1100, 1150, 2500}

RrSeries ==
    {[i \in 1..n |-> IF i \in SpikePositions THEN spikes[i] ELSE BaseRri] :
        n \in SeriesLengths,
        spikes \in [SpikePositions -> SpikeValues \cup {BaseRri}]}

\* (max_hr, min_hr): the defaults and a narrower pair.
HrLimits == {<<200, 30>>, <<180, 40>>}

InitHrv ==
    /\ readings = <<>>
    /\ baselines = <<>>
    /\ scores = <<>>
    /\ sessions = <<>>
    /\ args \in [rr_intervals : RrSeries]
    /\ ret = NoCall

CheckDataQuality ==
    /\ ret.op = "none"
    /\ \E limits \in HrLimits :
          LET r == check_data_quality(args.rr_intervals, limits[1], limits[2])
          IN  ret' = [op |-> "check_data_quality", exc |-> r.exc, val |-> r.val,
                      max_hr |-> limits[1], min_hr |-> limits[2]]
    /\ UNCHANGED <<readings, baselines, scores, sessions, args>>

MsgOf(r) == IF r.exc = "" THEN "" ELSE r.msg

CalculateTimeDomain ==
    /\ ret.op = "none"
    /\ LET r == calculate_time_domain(args.rr_intervals)
       IN  ret' = [op |-> "calculate_time_domain", exc |-> r.exc, val |-> r.val,
                   msg |-> MsgOf(r)]
    /\ UNCHANGED <<readings, baselines, scores, sessions, args>>

CalculateFrequencyDomain ==
    /\ ret.op = "none"
    /\ \E method \in {"welch", "ar"}, band_powers \in WelchBandPowers :
          LET r == calculate_frequency_domain(args.rr_intervals, method, band_powers)
          IN  ret' = [op |-> "calculate_frequency_domain", exc |-> r.exc,
                      val |-> r.val, msg |-> MsgOf(r), method |-> method]
    /\ UNCHANGED <<readings, baselines, scores, sessions, args>>

CalculateAllMetrics ==
    /\ ret.op = "none"
    /\ \E band_powers \in WelchBandPowers :
          LET r == calculate_all_metrics(args.rr_intervals, band_powers)
          IN  ret' = [op |-> "calculate_all_metrics", exc |-> r.exc, val |-> r.val,
                      msg |-> MsgOf(r)]
    /\ UNCHANGED <<readings, baselines, scores, sessions, args>>

NextHrv ==
    \/ CheckDataQuality
    \/ CalculateTimeDomain
    \/ CalculateFrequencyDomain
    \/ CalculateAllMetrics

SpecHrv == InitHrv /\ [][NextHrv]_vars

QualityCall == ret.op = "check_data_quality" /\ ret.exc = ""

\* The intervals of the series outside [60000 / max_hr, 60000 / min_hr] of the
\* last call.
OutOfRange ==
    {i \in DOMAIN args.rr_intervals :
        \/ args.rr_intervals[i] * ret.max_hr < 60000
        \/ args.rr_intervals[i] * ret.min_hr > 60000}

\* The successive pairs of the series that differ by more than 300 ms.
Jumps ==
    {i \in 1..(Len(args.rr_intervals) - 1) :
        Abs(args.rr_intervals[i + 1] - args.rr_intervals[i]) > 300}

\* C13: is_valid is true exactly when artifact_percentage < 5.0 and the series has
\* at least 60 intervals, where artifact_percentage is 100 * artifact_count / number
\* of intervals, and 0 for an empty series.
C13_ValidIffCleanAndLong ==
    QualityCall =>
        LET n == Len(args.rr_intervals)
            count == ret.val.artifact_count
            percentage == ret.val.artifact_percentage
        IN  /\ IsNum(percentage)
            /\ n = 0 => Val(percentage) = 0
            /\ n > 0 => /\ Val(percentage) * n <= count * 100 * ONE
                        /\ count * 100 * ONE < (Val(percentage) + 1) * n
            /\ ret.val.is_valid <=> (count * 100 < 5 * n /\ n >= 60)

C13_Witness ==
    /\ QualityCall
    /\ Len(args.rr_intervals) = 80
    /\ ret.val.artifact_count = 3
    /\ ret.val.is_valid

\* C14: artifact_count is the number of intervals outside [60000 / max_hr,
\* 60000 / min_hr] plus the number of successive absolute differences strictly
\* greater than 300 ms, with no deduplication: an out-of-range interval that also
\* makes an extreme difference is counted once per check.
C14_ArtifactsAddUp ==
    QualityCall =>
        ret.val.artifact_count = Cardinality(OutOfRange) + Cardinality(Jumps)

C14_Witness ==
    /\ QualityCall
    /\ OutOfRange = {30}
    /\ Jumps = {29, 30}
    /\ ret.val.artifact_count = 3

\* C15: check_data_quality returns a quality report for every interval series,
\* the empty, the single-element and the entirely out-of-range ones included, and
\* raises nothing: a quality failure is is_valid = false with at least one issue.
C15_QualityIsData ==
    ret.op = "check_data_quality" =>
        /\ ret.exc = ""
        /\ DOMAIN ret.val = {"is_valid", "artifact_count", "artifact_percentage",
                             "total_intervals", "issues"}
        /\ ret.val.is_valid \in BOOLEAN
        /\ ret.val.total_intervals = Len(args.rr_intervals)
        /\ IsNum(ret.val.artifact_percentage)
        /\ ~ret.val.is_valid => ret.val.issues # <<>>
        /\ ret.val.is_valid => ret.val.issues \in {<<>>,
                                   <<"physiologically impossible RR intervals">>,
                                   <<"extreme successive differences">>,
                                   <<"physiologically impossible RR intervals",
                                     "extreme successive differences">>}

C15_Witness ==
    /\ ret.op = "check_data_quality"
    /\ args.rr_intervals = <<>>
    /\ ret.exc = ""
    /\ ~ret.val.is_valid
    /\ ret.val.artifact_percentage = F(0)
    /\ ret.val.issues = <<"Insufficient data">>

\* C16: whenever a method other than 'welch' is selected, calculate_frequency_domain
\* raises NotImplementedError, for every series, those shorter than 60 intervals
\* included.
C16_ArNotSupported ==
    (ret.op = "calculate_frequency_domain" /\ ret.method # "welch") =>
        ret.exc = "NotImplementedError"

\* C17: calculate_all_metrics returns the complete merged set of time-domain and
\* frequency-domain metrics or raises the error of the step that failed: with fewer
\* than 2 intervals the time-domain error, with 2 to 59 intervals the
\* frequency-domain error and no time-domain-only result.
C17_AllOrNothing ==
    ret.op = "calculate_all_metrics" =>
        LET n == Len(args.rr_intervals)
        IN  /\ n < 2 => (ret.exc = "ValueError" /\ ret.msg = TimeDomainError)
            /\ (2 <= n /\ n < 60) =>
                  (ret.exc = "ValueError" /\ ret.msg = FrequencyDomainError)
            /\ ret.exc # "" => ret.val = 0
            /\ ret.exc = "" =>
                  /\ n >= 60
                  /\ DOMAIN ret.val =
                        {"mean_rri", "mean_hr", "sdnn", "rmssd", "pnn50",
                         "vlf_power", "lf_power", "hf_power", "total_power",
                         "lf_hf_ratio", "lf_nu", "hf_nu"}

C17_Witness ==
    /\ ret.op = "calculate_all_metrics"
    /\ Len(args.rr_intervals) = 59
    /\ ret.exc = "ValueError"
    /\ ret.msg = FrequencyDomainError
    /\ ret.val = 0

----------------------------------------------------------------------------
(* The request handlers of backend/api/hrv.py and                           *)
(* backend/api/energy_budget.py.  A handler answers with a status code; an  *)
(* exception that is no HTTPException leaves the handler and is answered    *)
(* with 500.  The session of a request that ends without commit is closed   *)
(* and its changes are discarded.                                           *)

\* The user ids that requests name; the users table has a row for each of Users
\* and none for user 3.
RequestUsers == Users \cup {3}

\* db.query(User).filter(User.id == user_id).first()
user_exists(user_id) == user_id \in Users

\* raise HTTPException(status_code=...), or the answer of a handler that returns;
\* table is the written table as the request leaves it.
Response(status_code, exc, table) ==
    [status |-> status_code, exc |-> exc, table |-> table]

\* The HRVReading row of lines 89-108.
reading_row(user_id, data, quality, metrics) ==
    HRVReading(user_id, data.recorded_at, F(metrics.rmssd), F(metrics.mean_hr),
               F(metrics.hf_power), F(metrics.lf_hf_ratio),
               data.sleep_duration, data.sleep_quality)
    @@ [recording_duration |-> F(Quot(Len(data.rr_intervals) * ONE, 60)),
        artifact_percentage |-> quality.artifact_percentage]

\* The gate of line 72 left open: every series is processed.
passes_gate_always(quality) == TRUE

\* not (not quality['is_valid'])
passes_gate(quality) == quality.is_valid

\* The new row written over the last row of the table.
db_replace_last(table, row) ==
    IF table = <<>> THEN <<row>> ELSE [table EXCEPT ![Len(table)] = row]

\* db.add(row); db.commit(): a new row with the next id.
db_add(table, row) == Append(table, row)

\* POST /{user_id}/readings.  quality is what hrv_calc.check_data_quality returns
\* for data.rr_intervals (line 71) and metrics what hrv_calc.calculate_all_metrics
\* returns or raises (line 81), which is read only when the gate is passed.
create_hrv_reading(table, user_id, data, quality, metrics) ==
    IF ~user_exists(user_id)
    THEN Response(404, "HTTPException", table)
    ELSE IF quality.exc # ""
    THEN Response(500, quality.exc, table)
    ELSE IF ~passes_gate(quality.val)
    THEN Response(400, "HTTPException", table)
    ELSE IF metrics.exc # ""
    THEN Response(500, "HTTPException", table)
    ELSE Response(201, "",
                  db_add(table, reading_row(user_id, data, quality.val,
                                            metrics.val)))

\* [r for r in table if r.user_id == user_id]
OnlyUser(table, user_id) == SelectSeq(table, LAMBDA r : r.user_id = user_id)

\* GET /{user_id}/readings: the number of rows listed.
get_hrv_readings(table, user_id, limit) ==
    LET n == Len(OnlyUser(table, user_id))
    IN  IF n < limit THEN n ELSE limit

\* GET /{user_id}/readings/{reading_id}
get_hrv_reading(table, user_id, reading_id) ==
    IF reading_id \in DOMAIN table /\ table[reading_id].user_id = user_id
    THEN Response(200, "", table)
    ELSE Response(404, "HTTPException", table)

\* POST /{user_id}/baseline; now is datetime.utcnow() of the call.
api_calculate_baseline(rtable, btable, user_id, now) ==
    LET baseline_data == calculate_baseline(rtable, user_id, now)
        saved == save_baseline(btable, user_id, baseline_data.dict)
    IN  IF ~user_exists(user_id)
        THEN Response(404, "HTTPException", btable)
        ELSE IF baseline_data.is_none
        THEN Response(400, "HTTPException", btable)
        ELSE IF saved.exc # ""
        THEN Response(500, saved.exc, saved.table)
        ELSE Response(200, "", saved.table)

\* GET /{user_id}/baseline
api_get_active_baseline(btable, user_id) ==
    {IF b = 0 THEN Response(404, "HTTPException", btable) ELSE Response(200, "", btable) :
        b \in get_active_baseline(btable, user_id)}

\* The methods of EnergyBudgetCalculator.
EnergyBudgetCalculatorMethods ==
    {"calculate_readiness", "_calculate_hrv_score", "_calculate_rhr_score",
     "_calculate_sleep_score", "_calculate_stress_score", "_assess_pem_risk",
     "_generate_activity_recommendation", "save_energy_budget",
     "get_readiness_trend"}

\* energy_budget_calc.<name>(db, user_id, reading, baseline): the attribute
\* lookup raises AttributeError for a name that is no method.
energy_budget_calc_call(name, recent, user_id, reading, baseline) ==
    IF name \notin EnergyBudgetCalculatorMethods THEN Raise("AttributeError")
    ELSE calculate_readiness(recent, user_id, reading, baseline)

\* POST /{user_id}/readiness/{reading_id}: the answers the request may get.
api_calculate_energy_budget(rtable, btable, stable, user_id, reading_id) ==
    IF ~(reading_id \in DOMAIN rtable /\ rtable[reading_id].user_id = user_id)
    THEN {Response(404, "HTTPException", stable)}
    ELSE
      LET reading == rtable[reading_id]
      IN  UNION {
            IF b = 0 THEN {Response(400, "HTTPException", stable)}
            ELSE {LET readiness_data ==
                          energy_budget_calc_call("calculate_energy_budget", recent,
                                                  user_id, reading, btable[b])
                  IN  IF readiness_data.exc # ""
                      THEN Response(500, readiness_data.exc, stable)
                      ELSE Response(200, "",
                                    save_energy_budget(stable, user_id,
                                                       reading.recorded_at,
                                                       readiness_data.val)) :
                    recent \in recent_scores(stable, user_id, reading.recorded_at)} :
            b \in get_active_baseline(btable, user_id)}

\* GET /{user_id}/readiness: the number of rows listed.
get_energy_budgets(stable, user_id, limit) ==
    LET n == Len(OnlyUser(stable, user_id))
    IN  IF n < limit THEN n ELSE limit

\* GET /{user_id}/readiness/trend/{days}: the number of rows listed.
get_readiness_trend(stable, user_id, days, now) ==
    Len(SelectSeq(OnlyUser(stable, user_id),
                  LAMBDA r : r.date >= now - days /\ r.date <= now))

\* GET /{user_id}/interpretation/{rmssd}/{mean_hr}: the warnings that
\* check_population_reference adds to the answer are left out.
get_hrv_interpretation(btable, user_id, rmssd) ==
    {IF b = 0 THEN [status |-> 400, exc |-> "HTTPException", val |-> ""]
     ELSE LET z_score == calculate_hrv_z_score(rmssd, btable[b])
          IN  IF z_score.exc = "ValueError"
              THEN [status |-> 400, exc |-> "HTTPException", val |-> ""]
              ELSE IF z_score.exc # ""
              THEN [status |-> 500, exc |-> z_score.exc, val |-> ""]
              ELSE [status |-> 200, exc |-> "",
                    val |-> interpret_hrv_z_score(z_score.val).status] :
        b \in get_active_baseline(btable, user_id)}

(* The API specification.  The database holds seven readings of user 1 and  *)
(* one of user 2, each stored by a reading submission; requests arrive one  *)
(* at a time, for users 1, 2 and the unregistered 3.  BaselineTracker and   *)
(* EnergyBudgetCalculator are also called directly on the same database:    *)
(* save_baseline with a dictionary of Baseline columns, calculate_baseline, *)
(* calculate_readiness followed by save_energy_budget, and                  *)
(* _assess_pem_risk.  The handlers of backend/api/users.py read and write   *)
(* the users table only, which keeps its two rows.                          *)

\* The rows that may be written after Init, over the three tables.
MaxApiWrites == 2

\* datetime.utcnow() of a request: day 30 has the stored readings in its 28-day
\* window, day 57 has them before it.
ApiNows == {30, 57}

\* A rhythm that alternates d ms below and above 800 ms.
Alternating(n, d) == [i \in 1..n |-> IF i % 2 = 1 THEN BaseRri - d ELSE BaseRri + d]

\* RMSSD 20 ms; 80 intervals with one jump of 350 ms (2 artifacts, 2.5 %, RMSSD
\* 55 ms); 59 intervals; 60 intervals with one of 2500 ms (3 artifacts, 5.0 %).
ApiSeries ==
    { Alternating(60, 10),
      [Alternating(80, 0) EXCEPT ![30] = 1150],
      Alternating(59, 10),
      [Alternating(60, 0) EXCEPT ![30] = 2500] }

ApiBandPowers == {bp \in WelchBandPowers : bp[1] # 50}

ApiSubmissions ==
    [rr_intervals : ApiSeries, recorded_at : {29},
     sleep_duration : {None}, sleep_quality : {None}]

\* The submissions, each with the quality report of its series under the default
\* limits and with its metrics.
ApiRequests ==
    {[user_id |-> user_id, data |-> data,
      quality |-> check_data_quality(data.rr_intervals, 200, 30),
      metrics |-> calculate_all_metrics(data.rr_intervals, band_powers)] :
        user_id \in RequestUsers, data \in ApiSubmissions,
        band_powers \in ApiBandPowers}

\* The row that a submission of the 20 ms rhythm stores.
ApiStored(user_id, recorded_at) ==
    LET data == [rr_intervals |-> Alternating(60, 10), recorded_at |-> recorded_at,
                 sleep_duration |-> None, sleep_quality |-> None]
        quality == check_data_quality(data.rr_intervals, 200, 30)
        metrics == calculate_all_metrics(data.rr_intervals, <<100, 600, 300>>)
    IN  create_hrv_reading(<<>>, user_id, data, quality, metrics).table[1]

ApiReadingTable ==
    << ApiStored(1, 22), ApiStored(1, 23), ApiStored(1, 24), ApiStored(1, 25),
       ApiStored(1, 26), ApiStored(1, 27), ApiStored(1, 28), ApiStored(2, 28) >>

ApiWrites == (Len(readings) - Len(ApiReadingTable)) + Len(baselines) + Len(scores)

\* A dictionary of Baseline columns, and the same with the readings_count key.
ApiBaselineDicts == {d \in BaselineDicts : d.mean_ln_rmssd = F(3689)}

\* The RMSSD values of interpretation requests.
ApiRmssds == {F(0), F(20)}

\* The reading ids that requests name: the last two rows, of which one is user 2's
\* at first, and the id after the last.
RequestReadingIds == (Len(readings) - 1)..(Len(readings) + 1)

InitApi ==
    /\ readings = ApiReadingTable
    /\ baselines = <<>>
    /\ scores = <<>>
    /\ sessions = <<>>
    /\ args = <<>>
    /\ ret = NoCall

ApiCreateHrvReading ==
    /\ ApiWrites < MaxApiWrites
    /\ \E request \in ApiRequests :
          LET r == create_hrv_reading(readings, request.user_id, request.data,
                                      request.quality, request.metrics)
          IN  /\ readings' = r.table
              /\ ret' = [op |-> "create_hrv_reading", exc |-> r.exc, val |-> 0,
                         status |-> r.status, user_id |-> request.user_id,
                         intervals |-> Len(request.data.rr_intervals)]
    /\ UNCHANGED <<baselines, scores, sessions, args>>

ApiGetHrvReadings ==
    /\ \E user_id \in RequestUsers :
          ret' = [op |-> "get_hrv_readings", exc |-> "",
                  val |-> get_hrv_readings(readings, user_id, 30),
                  status |-> 200, user_id |-> user_id]
    /\ UNCHANGED <<readings, baselines, scores, sessions, args>>

ApiGetHrvReading ==
    /\ \E user_id \in RequestUsers, reading_id \in RequestReadingIds :
          LET r == get_hrv_reading(readings, user_id, reading_id)
          IN  ret' = [op |-> "get_hrv_reading", exc |-> r.exc, val |-> 0,
                      status |-> r.status, user_id |-> user_id]
    /\ UNCHANGED <<readings, baselines, scores, sessions, args>>

ApiCalculateBaseline ==
    /\ ApiWrites < MaxApiWrites
    /\ \E user_id \in RequestUsers, now \in ApiNows :
          LET r == api_calculate_baseline(readings, baselines, user_id, now)
          IN  /\ baselines' = r.table
              /\ ret' = [op |-> "api_calculate_baseline", exc |-> r.exc, val |-> 0,
                         status |-> r.status, user_id |-> user_id, now |-> now]
    /\ UNCHANGED <<readings, scores, sessions, args>>

ApiGetActiveBaseline ==
    /\ \E user_id \in RequestUsers :
       \E r \in api_get_active_baseline(baselines, user_id) :
          ret' = [op |-> "api_get_active_baseline", exc |-> r.exc, val |-> 0,
                  status |-> r.status, user_id |-> user_id]
    /\ UNCHANGED <<readings, baselines, scores, sessions, args>>

ApiCalculateEnergyBudget ==
    /\ ApiWrites < MaxApiWrites
    /\ \E user_id \in RequestUsers, reading_id \in RequestReadingIds :
       \E r \in api_calculate_energy_budget(readings, baselines, scores,
                                            user_id, reading_id) :
          /\ scores' = r.table
          /\ ret' = [op |-> "api_calculate_energy_budget", exc |-> r.exc, val |-> 0,
                     status |-> r.status, user_id |-> user_id,
                     reading_id |-> reading_id]
    /\ UNCHANGED <<readings, baselines, sessions, args>>

ApiGetEnergyBudgets ==
    /\ \E user_id \in RequestUsers :
          ret' = [op |-> "get_energy_budgets", exc |-> "",
                  val |-> get_energy_budgets(scores, user_id, 30),
                  status |-> 200, user_id |-> user_id]
    /\ UNCHANGED <<readings, baselines, scores, sessions, args>>

ApiGetReadinessTrend ==
    /\ \E user_id \in RequestUsers, now \in ApiNows :
          ret' = [op |-> "get_readiness_trend", exc |-> "",
                  val |-> get_readiness_trend(scores, user_id, 7, now),
                  status |-> 200, user_id |-> user_id, now |-> now]
    /\ UNCHANGED <<readings, baselines, scores, sessions, args>>

ApiGetHrvInterpretation ==
    /\ \E user_id \in RequestUsers, rmssd \in ApiRmssds :
       \E r \in get_hrv_interpretation(baselines, user_id, rmssd) :
          ret' = [op |-> "get_hrv_interpretation", exc |-> r.exc, val |-> 0,
                  status |-> r.status, user_id |-> user_id, text |-> r.val]
    /\ UNCHANGED <<readings, baselines, scores, sessions, args>>

\* baseline_tracker.save_baseline(db, user_id, baseline_data), called directly.
DirectSaveBaseline ==
    /\ ApiWrites < MaxApiWrites
    /\ \E user_id \in Users, baseline_data \in ApiBaselineDicts :
          LET r == save_baseline(baselines, user_id, baseline_data)
          IN  /\ baselines' = r.table
              /\ ret' = [op |-> "save_baseline", exc |-> r.exc, val |-> r.id,
                         status |-> 0, user_id |-> user_id]
    /\ UNCHANGED <<readings, scores, sessions, args>>

\* calculate_readiness on a stored reading and the user's active baseline, then
\* save_energy_budget, called directly.
DirectScoreReading ==
    /\ ApiWrites < MaxApiWrites
    /\ \E id \in DOMAIN readings :
       \E b \in get_active_baseline(baselines, readings[id].user_id) :
       \E recent \in recent_scores(scores, readings[id].user_id, readings[id].recorded_at) :
          LET reading == readings[id]
              r == calculate_readiness(recent, reading.user_id, reading, baselines[b])
          IN  /\ b # 0
              /\ id \in RequestReadingIds
              /\ scores' = IF r.exc = ""
                           THEN save_energy_budget(scores, reading.user_id,
                                                   reading.recorded_at, r.val)
                           ELSE scores
              /\ ret' = LET call == [op |-> "calculate_readiness", exc |-> r.exc,
                                      val |-> 0, status |-> 0,
                                      user_id |-> reading.user_id, reading_id |-> id]
                         IN  IF r.exc = "" THEN call @@ [data |-> r.val] ELSE call
    /\ UNCHANGED <<readings, baselines, sessions, args>>

\* baseline_tracker.calculate_baseline(db, user_id, end_date), called directly.
DirectCalculateBaseline ==
    /\ \E user_id \in Users, end_date \in ApiNows :
          LET r == calculate_baseline(readings, user_id, end_date)
              call == [op |-> "calculate_baseline", exc |-> "", val |-> 0,
                       status |-> 0, user_id |-> user_id, now |-> end_date]
          IN  ret' = IF r.is_none THEN call ELSE call @@ [dict |-> r.dict]
    /\ UNCHANGED <<readings, baselines, scores, sessions, args>>

\* _assess_pem_risk(db, user_id, hrv_zscore, rhr_zscore, current_date), called
\* directly.
DirectAssessPemRisk ==
    /\ \E user_id \in Users, current_date \in ApiNows :
       \E recent \in recent_scores(scores, user_id, current_date) :
          LET r == _assess_pem_risk(recent, F(0), F(0))
          IN  ret' = [op |-> "_assess_pem_risk", exc |-> "",
                      val |-> r.consecutive_days, status |-> 0,
                      user_id |-> user_id, date |-> current_date]
    /\ UNCHANGED <<readings, baselines, scores, sessions, args>>

NextApi ==
    \/ ApiCreateHrvReading
    \/ ApiGetHrvReadings
    \/ ApiGetHrvReading
    \/ ApiCalculateBaseline
    \/ ApiGetActiveBaseline
    \/ ApiCalculateEnergyBudget
    \/ ApiGetEnergyBudgets
    \/ ApiGetReadinessTrend
    \/ ApiGetHrvInterpretation
    \/ DirectSaveBaseline
    \/ DirectScoreReading
    \/ DirectCalculateBaseline
    \/ DirectAssessPemRisk

SpecApi == InitApi /\ [][NextApi]_vars

\* C21: only an explicit baseline recalculation changes baselines: a reading
\* submission, computing and storing a readiness score, and every read leave each
\* stored Baseline, is_active included, as it was; and no operation changes a
\* field of an HRVReading that is already stored.
C21_OnlyRecalculationChangesBaselines ==
    [][/\ ret'.op \notin {"save_baseline", "api_calculate_baseline"} =>
              baselines' = baselines
       /\ Len(readings') >= Len(readings)
       /\ \A i \in DOMAIN readings : readings'[i] = readings[i]]_vars

C21_Witness ==
    /\ ret.op = "create_hrv_reading"
    /\ ret.status = 201
    /\ Len(readings) = Len(ApiReadingTable) + 1
    /\ \E i \in DOMAIN baselines : baselines[i].is_active

\* C24: the readiness endpoint answers 404 and stores nothing when the reading
\* does not exist for that user; otherwise 400 and stores nothing when the user
\* has no active baseline; otherwise it computes the score with
\* EnergyBudgetCalculator from the reading and the active baseline and stores
\* exactly one new EnergyBudget record dated at the reading's recorded_at.
C24_ReadinessProtocol ==
    [][ret'.op = "api_calculate_energy_budget" =>
          LET user_id == ret'.user_id
              reading_id == ret'.reading_id
              found == /\ reading_id \in DOMAIN readings
                       /\ readings[reading_id].user_id = user_id
              active == {b \in DOMAIN baselines :
                            baselines[b].user_id = user_id /\ baselines[b].is_active}
          IN  IF ~found THEN ret'.status = 404 /\ scores' = scores
              ELSE IF active = {} THEN ret'.status = 400 /\ scores' = scores
              ELSE /\ ret'.status = 200
                   /\ Len(scores') = Len(scores) + 1
                   /\ SubSeq(scores', 1, Len(scores)) = scores
                   /\ \E b \in active :
                      \E recent \in recent_scores(scores, user_id,
                                                  readings[reading_id].recorded_at) :
                         scores'[Len(scores')] =
                             EnergyBudget(user_id, readings[reading_id].recorded_at,
                                          calculate_readiness(recent, user_id,
                                                              readings[reading_id],
                                                              baselines[b]).val)]_vars

\* A stored reading that passed the quality gate: its series had at least 60
\* intervals (recording_duration is their number / 60.0) and its
\* artifact_percentage is below 5.0.
PassedGate(row) ==
    /\ Val(row.recording_duration) >= ONE
    /\ IsNum(row.artifact_percentage)
    /\ Val(row.artifact_percentage) < 5 * ONE

\* C26: every HRVReading stored through the reading-submission endpoint passed the
\* quality gate: it was derived from at least 60 intervals and its stored
\* artifact_percentage is < 5.0; a submission that fails the gate, or whose metric
\* computation fails, or whose user does not exist, leaves the stored readings
\* unchanged.
C26_StoredReadingsPassedGate ==
    [][/\ \A i \in DOMAIN readings : PassedGate(readings[i])
       /\ \A i \in DOMAIN readings' : PassedGate(readings'[i])
       /\ ret'.op = "create_hrv_reading" =>
             /\ ret'.status \in {201, 400, 404, 500}
             /\ ret'.status # 201 => readings' = readings
             /\ (ret'.intervals < 60 \/ ret'.user_id \notin Users) =>
                    ret'.status # 201
             /\ ret'.status = 201 =>
                    /\ Len(readings') = Len(readings) + 1
                    /\ SubSeq(readings', 1, Len(readings)) = readings
                    /\ readings'[Len(readings')].user_id = ret'.user_id
                    /\ readings'[Len(readings')].recording_duration
                           = F(Quot(ret'.intervals * ONE, 60))]_vars

C26_Witness ==
    /\ ret.op = "create_hrv_reading"
    /\ ret.status = 201
    /\ ret.intervals = 80
    /\ Val(readings[Len(readings)].artifact_percentage) = 2500
    /\ Len(readings) = Len(ApiReadingTable) + 2

\* C28: once a user has an active baseline, the user has one in every later
\* state: no operation, a later recalculation that succeeds or fails included,
\* leaves a user who had an active baseline with none.
C28_ActiveBaselineStays ==
    [][\A user_id \in Users :
          ActiveOf(baselines, user_id) # {} => ActiveOf(baselines', user_id) # {}]_vars

C28_Witness ==
    /\ ret.op = "api_calculate_baseline"
    /\ ret.status = 500
    /\ ret.exc = "TypeError"
    /\ ActiveOf(baselines, ret.user_id) # {}

\* The stored readings of a user that have an RMSSD and a recorded_at in the
\* inclusive 28 days before now.
UsableReadings(user_id, now) ==
    {i \in DOMAIN readings :
        /\ readings[i].user_id = user_id
        /\ readings[i].recorded_at >= now - 28
        /\ readings[i].recorded_at <= now
        /\ ~IsNone(readings[i].rmssd)}

\* C29: a baseline recalculation request that finds insufficient data is rejected
\* with an error response and changes nothing: no baseline is created and the
\* user's previously active baseline, if any, stays active with unchanged values.
C29_InsufficientDataChangesNothing ==
    [][(/\ ret'.op = "api_calculate_baseline"
        /\ Cardinality(UsableReadings(ret'.user_id, ret'.now)) < 7) =>
           /\ ret'.status = IF ret'.user_id \in Users THEN 400 ELSE 404
           /\ ret'.exc = "HTTPException"
           /\ baselines' = baselines
           /\ readings' = readings
           /\ scores' = scores]_vars

C29_Witness ==
    /\ ret.op = "api_calculate_baseline"
    /\ ret.status = 400
    /\ Cardinality(UsableReadings(ret.user_id, ret.now)) = 1
    /\ ActiveOf(baselines, ret.user_id) # {}

\* The rows of a user's active baselines.
ActiveRows(table, user_id) == {table[b] : b \in ActiveOf(table, user_id)}

\* C30: users are isolated: a baseline, PEM streak or readiness result computed
\* for user A is the one computed from A's readings, A's active baseline and A's
\* score records alone, and an operation for user A changes no reading, no
\* baseline (is_active included) and no score record of another user B.
C30_UsersIsolated ==
    [][LET A == ret'.user_id
           own_readings == OnlyUser(readings, A)
           own_baselines == OnlyUser(baselines, A)
           own_scores == OnlyUser(scores, A)
       IN  /\ \A B \in Users \ {A} :
                 /\ OnlyUser(readings', B) = OnlyUser(readings, B)
                 /\ OnlyUser(baselines', B) = OnlyUser(baselines, B)
                 /\ OnlyUser(scores', B) = OnlyUser(scores, B)
           /\ ret'.op = "calculate_baseline" =>
                 LET r == calculate_baseline(own_readings, A, ret'.now)
                 IN  /\ r.is_none <=> "dict" \notin DOMAIN ret'
                     /\ ~r.is_none => ret'.dict = r.dict
           /\ ret'.op = "api_calculate_baseline" =>
                 ret'.status =
                     api_calculate_baseline(own_readings, own_baselines, A,
                                            ret'.now).status
           /\ ret'.op = "_assess_pem_risk" =>
                 \E recent \in recent_scores(own_scores, A, ret'.date) :
                    ret'.val = _assess_pem_risk(recent, F(0), F(0)).consecutive_days
           /\ ret'.op = "calculate_readiness" =>
                 \E baseline \in ActiveRows(own_baselines, A) :
                 \E recent \in recent_scores(own_scores, A,
                                             readings[ret'.reading_id].recorded_at) :
                    LET r == calculate_readiness(recent, A, readings[ret'.reading_id],
                                                 baseline)
                    IN  /\ readings[ret'.reading_id].user_id = A
                        /\ ret'.exc = r.exc
                        /\ r.exc = "" => ret'.data = r.val]_vars

C30_Witness ==
    /\ ret.op = "_assess_pem_risk"
    /\ ret.user_id = 1
    /\ ret.val = 0
    /\ \E k \in DOMAIN scores :
          /\ scores[k].user_id = 2
          /\ scores[k].date >= ret.date - 7
          /\ scores[k].date <= ret.date
          /\ Val(scores[k].hrv_zscore) < 0 - ONE
    /\ ActiveOf(baselines, 2) # {}

====
